---------------------------- MODULE Spec2Model ----------------------------
(***************************************************************************)
(* A model of the todo CLI: the credential and session manager (auth.rs),  *)
(* the task store (todo.rs), the reminder engine (reminder.rs) and the     *)
(* commands of main.rs that drive them.                                    *)
(*                                                                         *)
(* Strings are sequences of one-character strings, so that trim, contains  *)
(* and len are computed.  Option<T> is a sequence of length 0 (None) or 1  *)
(* (Some).  Instants are whole ticks; a day is TicksPerDay ticks.          *)
(***************************************************************************)
EXTENDS Integers, Sequences, FiniteSets, TLC

VARIABLES
    users,            \* AuthManager.users: id -> User
    current_session,  \* AuthManager.current_session: Option<Session>
    stored_users,     \* the users collection on disk
    stored_session,   \* the session record on disk
    todos,            \* TodoManager.todos: id -> Todo
    stored_todos,     \* the tasks collection on disk
    markdown,         \* the human-readable mirror of the tasks: id -> entry
    now,              \* the wall clock (Utc::now / Local::now)
    ret,              \* what the last command or call returned
    next_uuid,        \* how many ids Uuid::new_v4 has handed out
    io_faults         \* how many storage writes have failed so far

authVars == <<users, current_session, stored_users, stored_session>>
todoVars == <<todos, stored_todos, markdown>>
vars == <<authVars, todoVars, now, ret, next_uuid, io_faults>>

---------------------------------------------------------------------------
(* Bounds of the model *)

TicksPerDay == 2      \* resolution of the clock: one tick is half a day
ClockSlack == 1       \* ticks the clock runs on from where a behaviour starts
MaxFaults == 1        \* storage write failures per behaviour
MaxTodos == 2         \* tasks created per behaviour
MaxInput == 3         \* tasks in a snapshot the reminders are derived from

(* Program constants *)

SESSION_DAYS == 7
MIN_PASSWORD_LEN == 6
REMINDER_DAYS == 7     \* a due date this far ahead or further is not reminded of
STALE_DAYS == 7        \* a task with no due date older than this is reminded of

Days(n) == n * TicksPerDay

\* A behaviour starts one tick before a session opened at instant 0 expires
Epoch == Days(SESSION_DAYS) - 1
MaxNow == Epoch + ClockSlack

\* ids: two for the users a store starts with, one for each task created
MaxUuid == 2 + MaxTodos

---------------------------------------------------------------------------
(* Option and string helpers *)

None == <<>>
Some(x) == <<x>>
IsSome(o) == Len(o) = 1
Unwrap(o) == o[1]

Rep(c, n) == [i \in 1..n |-> c]

\* str::trim().is_empty(): nothing but white space
TrimIsEmpty(s) == \A i \in 1..Len(s) : s[i] = " "

\* str::contains(c)
Contains(s, c) == \E i \in 1..Len(s) : s[i] = c

\* bcrypt: hash is one-way and salted; verify accepts exactly the password hashed
hash(password) == <<"$2b$">> \o password
verify(password, password_hash) == password_hash = hash(password)

---------------------------------------------------------------------------
(* The inputs the commands are tried with *)

Usernames == { <<" ">>, <<"a">>, <<"A">> }
Emails == { <<"a">>, <<"a", "@">>, <<"b", "@">> }
Passwords == { Rep("p", 5), Rep("p", 6) }
LoginPasswords == { Rep("p", 6), Rep("q", 6) }

\* a flag or an argument of the command line: None when it is not given
Flag(values) == {None} \cup {Some(v) : v \in values}

TitleFlags == { None }
TitlesTyped == { <<"t">> }
Descriptions == { <<>> }
EditDescriptions == { <<"d">> }
PriorityFlags == { Some(<<"H">>), Some(<<"x">>) }
Selections == { 1 }
DueFlags == { None, Some(<<"x">>), Some(<<"day", 7>>) }
DuesTyped == { <<>> }
StatusFilters == Flag({ <<"D", "o", "n", "e">> })
PriorityFilters == Flag({ <<"h">> })
\* the ids a user may type: those of the tasks there are, and one of no task
IdArgs == Flag(DOMAIN todos \cup {0})

\* a call: the operation and the arguments it was given
Call(op, args) == [op |-> op, args |-> args]

\* what a call returned: Ok(val) or Err(msg)
Ok(call, val) == [op |-> call.op, args |-> call.args, ok |-> TRUE, err |-> "",
                 val |-> val]
Err(call, msg) == [op |-> call.op, args |-> call.args, ok |-> FALSE, err |-> msg,
                  val |-> None]

---------------------------------------------------------------------------
(* Storage adapter: each write either succeeds or fails with an I/O error *)

WriteOutcomes == IF io_faults < MaxFaults THEN {TRUE, FALSE} ELSE {TRUE}

---------------------------------------------------------------------------
(* auth.rs *)

\* register_check without the check of the email's uniqueness
register_check_no_email(username, email, password) ==
    IF \E id \in DOMAIN users : users[id].username = username
        THEN "Username already exists"
    ELSE IF TrimIsEmpty(username)
        THEN "Username cannot be empty"
    ELSE IF TrimIsEmpty(email) \/ ~Contains(email, "@")
        THEN "Invalid email address"
    ELSE IF Len(password) < MIN_PASSWORD_LEN
        THEN "Password must be at least 6 characters long"
    ELSE ""

\* register_check with the input validated before the uniqueness checks
register_check_validate_first(username, email, password) ==
    IF TrimIsEmpty(username)
        THEN "Username cannot be empty"
    ELSE IF TrimIsEmpty(email) \/ ~Contains(email, "@")
        THEN "Invalid email address"
    ELSE IF Len(password) < MIN_PASSWORD_LEN
        THEN "Password must be at least 6 characters long"
    ELSE IF \E id \in DOMAIN users : users[id].username = username
        THEN "Username already exists"
    ELSE IF \E id \in DOMAIN users : users[id].email = email
        THEN "Email already exists"
    ELSE ""

\* the first failing check of register, "" when all pass
register_check(username, email, password) ==
    IF \E id \in DOMAIN users : users[id].username = username
        THEN "Username already exists"
    ELSE IF \E id \in DOMAIN users : users[id].email = email
        THEN "Email already exists"
    ELSE IF TrimIsEmpty(username)
        THEN "Username cannot be empty"
    ELSE IF TrimIsEmpty(email) \/ ~Contains(email, "@")
        THEN "Invalid email address"
    ELSE IF Len(password) < MIN_PASSWORD_LEN
        THEN "Password must be at least 6 characters long"
    ELSE ""

\* register that inserts the user before it validates the input
register_insert_first(username, email, password) ==
    LET call == Call("register", <<username, email, password>>)
        msg == register_check(username, email, password)
        user == [id |-> next_uuid + 1,
                 username |-> username,
                 email |-> email,
                 password_hash |-> hash(password),
                 created_at |-> now,
                 last_login |-> None]
    IN  /\ next_uuid' = next_uuid + 1
        /\ users' = (user.id :> user) @@ users
        /\ IF msg # ""
           THEN /\ ret' = Err(call, msg)
                /\ UNCHANGED <<stored_users, io_faults>>
           ELSE \E saved \in WriteOutcomes :
                   IF saved
                   THEN /\ stored_users' = users'
                        /\ ret' = Ok(call, Some(user))
                        /\ UNCHANGED io_faults
                   ELSE /\ ret' = Err(call, "io")
                        /\ io_faults' = io_faults + 1
                        /\ UNCHANGED stored_users
        /\ UNCHANGED <<current_session, stored_session, todoVars, now>>

register(username, email, password) ==
    LET call == Call("register", <<username, email, password>>)
        msg == register_check(username, email, password)
    IN  IF msg # ""
        THEN /\ ret' = Err(call, msg)
             /\ UNCHANGED <<authVars, todoVars, now, next_uuid, io_faults>>
        ELSE /\ LET user == [id |-> next_uuid + 1,
                             username |-> username,
                             email |-> email,
                             password_hash |-> hash(password),
                             created_at |-> now,
                             last_login |-> None]
                IN  /\ next_uuid' = next_uuid + 1
                    /\ users' = (user.id :> user) @@ users
                    /\ \E saved \in WriteOutcomes :
                          IF saved
                          THEN /\ stored_users' = users'
                               /\ ret' = Ok(call, Some(user))
                               /\ UNCHANGED io_faults
                          ELSE /\ ret' = Err(call, "io")
                               /\ io_faults' = io_faults + 1
                               /\ UNCHANGED stored_users
                    /\ UNCHANGED <<current_session, stored_session, todoVars, now>>

\* users.values().find(|u| u.username == username): None, or the id of a user
\* of that name
find_user(username) ==
    IF \E id \in DOMAIN users : users[id].username = username
    THEN {Some(id) : id \in {i \in DOMAIN users : users[i].username = username}}
    ELSE {None}

\* login_check that tells an unknown username from a wrong password
login_check_telling(found, password) ==
    IF ~IsSome(found)
        THEN "User not found"
    ELSE IF ~verify(password, users[Unwrap(found)].password_hash)
        THEN "Invalid username or password"
    ELSE ""

\* the error login returns for the user found and the password, "" when none
login_check(found, password) ==
    IF ~IsSome(found)
        THEN "Invalid username or password"
    ELSE IF ~verify(password, users[Unwrap(found)].password_hash)
        THEN "Invalid username or password"
    ELSE ""

\* login that writes the session without writing the user mapping
login_users_unsaved(username, password) ==
    LET call == Call("login", <<username, password>>)
    IN  \E found \in find_user(username) :
        IF login_check(found, password) # ""
        THEN /\ ret' = Err(call, login_check(found, password))
             /\ UNCHANGED <<authVars, todoVars, now, next_uuid, io_faults>>
        ELSE LET id == Unwrap(found)
                 updated_user == [users[id] EXCEPT !.last_login = Some(now)]
                 session == [user_id |-> id,
                             created_at |-> now,
                             expires_at |-> now + Days(SESSION_DAYS)]
             IN  /\ users' = [users EXCEPT ![id] = updated_user]
                 /\ current_session' = Some(session)
                 /\ \E saved_session \in WriteOutcomes :
                       IF saved_session
                       THEN /\ stored_session' = Some(session)
                            /\ ret' = Ok(call, Some(updated_user))
                            /\ UNCHANGED io_faults
                       ELSE /\ ret' = Err(call, "io")
                            /\ io_faults' = io_faults + 1
                            /\ UNCHANGED stored_session
                 /\ UNCHANGED <<stored_users, todoVars, now, next_uuid>>

login(username, password) ==
    LET call == Call("login", <<username, password>>)
    IN  \E found \in find_user(username) :
        IF login_check(found, password) # ""
        THEN /\ ret' = Err(call, login_check(found, password))
             /\ UNCHANGED <<authVars, todoVars, now, next_uuid, io_faults>>
        \* three reads of Utc::now(): the first returns now, and the clock may
        \* move on before each of the other two
        ELSE \E t1 \in {now}, t2, t3 \in now..(now + 1) :
             /\ t1 <= t2 /\ t2 <= t3 /\ t3 <= MaxNow
             /\ LET id == Unwrap(found)
                    updated_user == [users[id] EXCEPT !.last_login = Some(t1)]
                    session == [user_id |-> id,
                                created_at |-> t2,
                                expires_at |-> t3 + Days(SESSION_DAYS)]
                IN  /\ users' = [users EXCEPT ![id] = updated_user]
                    /\ now' = t3
                    /\ \E saved_users \in WriteOutcomes :
                       IF ~saved_users
                       THEN /\ ret' = Err(call, "io")
                            /\ io_faults' = io_faults + 1
                            /\ UNCHANGED <<current_session, stored_users,
                                           stored_session>>
                       ELSE /\ stored_users' = users'
                            /\ current_session' = Some(session)
                            /\ \E saved_session \in WriteOutcomes :
                               IF saved_session
                               THEN /\ stored_session' = Some(session)
                                    /\ ret' = Ok(call, Some(updated_user))
                                    /\ UNCHANGED io_faults
                               ELSE /\ ret' = Err(call, "io")
                                    /\ io_faults' = io_faults + 1
                                    /\ UNCHANGED stored_session
             /\ UNCHANGED <<todoVars, next_uuid>>

\* logout that reports success without clearing the persisted session
logout_memory_only ==
    /\ current_session' = None
    /\ ret' = Ok(Call("logout", <<>>), None)
    /\ UNCHANGED <<users, stored_users, stored_session, todoVars, now, next_uuid,
                   io_faults>>

logout ==
    /\ current_session' = None
    /\ \E cleared \in WriteOutcomes :
          IF cleared
          THEN /\ stored_session' = None
               /\ ret' = Ok(Call("logout", <<>>), None)
               /\ UNCHANGED io_faults
          ELSE /\ ret' = Err(Call("logout", <<>>), "io")
               /\ io_faults' = io_faults + 1
               /\ UNCHANGED stored_session
    /\ UNCHANGED <<users, stored_users, todoVars, now, next_uuid>>

\* is_authenticated with the session still valid at its expiry instant
is_authenticated_inclusive ==
    IF IsSome(current_session)
    THEN Unwrap(current_session).expires_at >= now
    ELSE FALSE

is_authenticated ==
    IF IsSome(current_session)
    THEN Unwrap(current_session).expires_at > now
    ELSE FALSE

\* get_current_user that accepts a session at its expiry instant
get_current_user_inclusive ==
    IF ~IsSome(current_session)
    THEN Err(Call("get_current_user", <<>>), "Not authenticated")
    ELSE IF Unwrap(current_session).expires_at < now
    THEN Err(Call("get_current_user", <<>>), "Session expired")
    ELSE IF Unwrap(current_session).user_id \notin DOMAIN users
    THEN Err(Call("get_current_user", <<>>), "User not found")
    ELSE Ok(Call("get_current_user", <<>>),
            Some(users[Unwrap(current_session).user_id]))

get_current_user ==
    IF ~IsSome(current_session)
    THEN Err(Call("get_current_user", <<>>), "Not authenticated")
    ELSE IF Unwrap(current_session).expires_at <= now
    THEN Err(Call("get_current_user", <<>>), "Session expired")
    ELSE IF Unwrap(current_session).user_id \notin DOMAIN users
    THEN Err(Call("get_current_user", <<>>), "User not found")
    ELSE Ok(Call("get_current_user", <<>>), Some(users[Unwrap(current_session).user_id]))

---------------------------------------------------------------------------
(* todo.rs *)

\* str::to_lowercase, on the letters the inputs use
UpperToLower == ("H" :> "h") @@ ("L" :> "l") @@ ("M" :> "m") @@ ("D" :> "d")
ToLower(s) == [i \in 1..Len(s) |->
                 IF s[i] \in DOMAIN UpperToLower THEN UpperToLower[s[i]] ELSE s[i]]

\* Status::from_string: None stands for Err
Status_from_string(s) ==
    LET l == ToLower(s)
    IN  IF l \in { <<"p","e","n","d","i","n","g">>, <<"p">> } THEN Some("Pending")
        ELSE IF l \in { <<"c","o","m","p","l","e","t","e","d">>,
                        <<"c","o","m","p","l","e","t","e">>,
                        <<"d","o","n","e">>, <<"c">> } THEN Some("Completed")
        ELSE None

\* Priority::from_string: None stands for Err
Priority_from_string(s) ==
    LET l == ToLower(s)
    IN  IF l \in { <<"l","o","w">>, <<"l">> } THEN Some("Low")
        ELSE IF l \in { <<"m","e","d","i","u","m">>, <<"m","e","d">>, <<"m">> }
            THEN Some("Medium")
        ELSE IF l \in { <<"h","i","g","h">>, <<"h">> } THEN Some("High")
        ELSE None

\* Todo::new
TodoNew(title, description, priority, due_date, user_id) ==
    [id |-> next_uuid + 1,
     title |-> title,
     description |-> description,
     status |-> "Pending",
     priority |-> priority,
     due_date |-> due_date,
     created_at |-> now,
     updated_at |-> now,
     user_id |-> user_id]

\* HashMap::insert: adds the key or replaces its value
Insert(map, key, value) == [k \in DOMAIN map \cup {key} |->
                               IF k = key THEN value ELSE map[k]]

\* HashMap::remove
Remove(map, key) == [k \in DOMAIN map \ {key} |-> map[k]]

\* the I/O error of the call on the mirror: the record notes which write failed
MirrorErr(call) == [Err(call, "io") EXCEPT !.val = Some("mirror")]

\* save_and_mirror that undoes the mutation when the call on the mirror fails
save_and_mirror_rollback(call, new_todos, new_markdown) ==
    \E saved \in WriteOutcomes :
        IF ~saved
        THEN /\ todos' = new_todos
             /\ ret' = Err(call, "io")
             /\ io_faults' = io_faults + 1
             /\ UNCHANGED <<stored_todos, markdown>>
        ELSE \E mirrored \in WriteOutcomes :
                IF mirrored
                THEN /\ todos' = new_todos
                     /\ stored_todos' = new_todos
                     /\ markdown' = new_markdown
                     /\ ret' = Ok(call, None)
                     /\ UNCHANGED io_faults
                ELSE /\ ret' = MirrorErr(call)
                     /\ io_faults' = io_faults + 1
                     /\ UNCHANGED <<todos, stored_todos, markdown>>

\* save_and_mirror that leaves the write of the task mapping to a later flush
save_and_mirror_batched(call, new_todos, new_markdown) ==
    /\ todos' = new_todos
    /\ \E mirrored \in WriteOutcomes :
          IF mirrored
          THEN /\ markdown' = new_markdown
               /\ ret' = Ok(call, None)
               /\ UNCHANGED <<stored_todos, io_faults>>
          ELSE /\ ret' = MirrorErr(call)
               /\ io_faults' = io_faults + 1
               /\ UNCHANGED <<stored_todos, markdown>>

\* save_todos(&self.todos)?, then the call on the mirror with ?: the first
\* failure is returned and what was done before it stays done
save_and_mirror(call, new_todos, new_markdown) ==
    /\ todos' = new_todos
    /\ \E saved \in WriteOutcomes :
          IF ~saved
          THEN /\ ret' = Err(call, "io")
               /\ io_faults' = io_faults + 1
               /\ UNCHANGED <<stored_todos, markdown>>
          ELSE /\ stored_todos' = new_todos
               /\ \E mirrored \in WriteOutcomes :
                     IF mirrored
                     THEN /\ markdown' = new_markdown
                          /\ ret' = Ok(call, None)
                          /\ UNCHANGED io_faults
                     ELSE /\ ret' = MirrorErr(call)
                          /\ io_faults' = io_faults + 1
                          /\ UNCHANGED markdown

add_todo(call, todo) ==
    save_and_mirror(call, Insert(todos, todo.id, todo), Insert(markdown, todo.id, todo))

\* get_user_todos without the filter on the owner
get_user_todos_unfiltered(user_id) == DOMAIN todos

\* todos.values().filter(|todo| todo.user_id == user_id): in no particular order
get_user_todos(user_id) == {id \in DOMAIN todos : todos[id].user_id = user_id}

get_todo(todo_id) ==
    IF todo_id \in DOMAIN todos
    THEN Ok(Call("get_todo", <<todo_id>>), Some(todos[todo_id]))
    ELSE Err(Call("get_todo", <<todo_id>>), "Todo not found")

\* update_markdown_todo rewrites the entry of a task the mirror holds
MarkdownUpdate(todo) ==
    IF todo.id \in DOMAIN markdown THEN Insert(markdown, todo.id, todo) ELSE markdown

\* complete_todo that refuses a task already Completed
complete_todo_once(call, todo_id) ==
    IF todo_id \notin DOMAIN todos
    THEN /\ ret' = Err(call, "Todo not found")
         /\ UNCHANGED <<todoVars, io_faults>>
    ELSE IF todos[todo_id].status = "Completed"
    THEN /\ ret' = Err(call, "Todo already completed")
         /\ UNCHANGED <<todoVars, io_faults>>
    ELSE LET updated_todo == [todos[todo_id] EXCEPT !.status = "Completed",
                                                     !.updated_at = now]
         IN  save_and_mirror(call, Insert(todos, todo_id, updated_todo),
                             MarkdownUpdate(updated_todo))

complete_todo(call, todo_id) ==
    IF todo_id \notin DOMAIN todos
    THEN /\ ret' = Err(call, "Todo not found")
         /\ UNCHANGED <<todoVars, io_faults>>
    ELSE LET updated_todo == [todos[todo_id] EXCEPT !.status = "Completed",
                                                     !.updated_at = now]
         IN  save_and_mirror(call, Insert(todos, todo_id, updated_todo),
                             MarkdownUpdate(updated_todo))

\* update_todo that stores the record as Pending
update_todo_reopening(call, updated_todo) ==
    save_and_mirror(call,
                    Insert(todos, updated_todo.id,
                           [updated_todo EXCEPT !.status = "Pending"]),
                    MarkdownUpdate(updated_todo))

update_todo(call, updated_todo) ==
    save_and_mirror(call, Insert(todos, updated_todo.id, updated_todo),
                    MarkdownUpdate(updated_todo))

\* delete_todo that reports success for an id it does not hold
delete_todo_silent(call, todo_id) ==
    IF todo_id \notin DOMAIN todos
    THEN /\ ret' = Ok(call, None)
         /\ UNCHANGED <<todoVars, io_faults>>
    ELSE save_and_mirror(call, Remove(todos, todo_id), Remove(markdown, todo_id))

delete_todo(call, todo_id) ==
    IF todo_id \notin DOMAIN todos
    THEN /\ ret' = Err(call, "Todo not found")
         /\ UNCHANGED <<todoVars, io_faults>>
    ELSE save_and_mirror(call, Remove(todos, todo_id), Remove(markdown, todo_id))

---------------------------------------------------------------------------
(* reminder.rs *)

\* ReminderPriority derives PartialOrd: Info < Warning < Critical
Rank(priority) ==
    CASE priority = "Info" -> 0
      [] priority = "Warning" -> 1
      [] priority = "Critical" -> 2

\* Duration::num_days and Duration::num_hours of a duration of d >= 0 ticks
num_days(d) == d \div TicksPerDay
num_hours(d) == d * (24 \div TicksPerDay)

\* due_reminder that stops reminding at two days ahead
due_reminder_two_days(todo, now_) ==
    LET time_diff == Unwrap(todo.due_date) - now_
    IN  IF time_diff < 0
        THEN << [message |-> <<todo.title, "overdue", 0>>,
                 emoji |-> "siren", priority |-> "Critical"] >>
        ELSE IF time_diff < Days(1)
        THEN << [message |-> <<todo.title, "due today", 0>>,
                 emoji |-> "clock", priority |-> "Warning"] >>
        ELSE IF time_diff < Days(2)
        THEN << [message |-> <<todo.title, "due tomorrow", 0>>,
                 emoji |-> "calendar", priority |-> "Info"] >>
        ELSE << >>

\* the body of the first loop: the reminder, if any, of a Pending task with a
\* due date; a message is <<title, text, number>>
due_reminder(todo, now_) ==
    LET time_diff == Unwrap(todo.due_date) - now_
    IN  IF time_diff < 0
        THEN << [message |-> IF num_days(-time_diff) > 0
                             THEN <<todo.title, "day(s) overdue", num_days(-time_diff)>>
                             ELSE <<todo.title, "hour(s) overdue", num_hours(-time_diff)>>,
                 emoji |-> "siren",
                 priority |-> "Critical"] >>
        ELSE IF time_diff < Days(1)
        THEN << [message |-> IF num_hours(time_diff) < 1
                             THEN <<todo.title, "due in less than an hour", 0>>
                             ELSE <<todo.title, "due in hour(s)", num_hours(time_diff)>>,
                 emoji |-> "clock",
                 priority |-> "Warning"] >>
        ELSE IF time_diff < Days(2)
        THEN << [message |-> <<todo.title, "due tomorrow", 0>>,
                 emoji |-> "calendar",
                 priority |-> "Info"] >>
        ELSE IF time_diff < Days(REMINDER_DAYS)
        THEN << [message |-> <<todo.title, "due in day(s)", num_days(time_diff)>>,
                 emoji |-> "clipboard",
                 priority |-> "Info"] >>
        ELSE << >>

\* stale_reminder that reminds at exactly STALE_DAYS days of age
stale_reminder_inclusive(todo, now_) ==
    IF now_ - todo.created_at >= Days(STALE_DAYS)
    THEN << [message |-> <<todo.title, "pending for day(s)",
                           num_days(now_ - todo.created_at)>>,
             emoji |-> "thought", priority |-> "Info"] >>
    ELSE << >>

\* the body of the second loop: the reminder, if any, of a Pending task with no
\* due date
stale_reminder(todo, now_) ==
    LET age == now_ - todo.created_at
    IN  IF age > Days(STALE_DAYS)
        THEN << [message |-> <<todo.title, "pending for day(s)", num_days(age)>>,
                 emoji |-> "thought",
                 priority |-> "Info"] >>
        ELSE << >>

\* reminders.sort_by(|a, b| b.priority.partial_cmp(&a.priority).unwrap()): a
\* stable sort, built here by inserting each element behind those not below it
sort_by(reminders) ==
    LET sorted[i \in 0..Len(reminders)] ==
            IF i = 0 THEN << >>
            ELSE LET r == reminders[i]
                     before == sorted[i - 1]
                     k == Cardinality({j \in 1..Len(before) :
                                          Rank(before[j].priority) >= Rank(r.priority)})
                 IN  SubSeq(before, 1, k) \o <<r>> \o SubSeq(before, k + 1, Len(before))
    IN  sorted[Len(reminders)]

\* get_reminders without the filter on the status
get_reminders_any_status(todos_, now_) ==
    LET with_due[i \in 0..Len(todos_)] ==
            IF i = 0 THEN << >>
            ELSE with_due[i - 1] \o
                 (IF IsSome(todos_[i].due_date)
                  THEN due_reminder(todos_[i], now_)
                  ELSE << >>)
        without_due[i \in 0..Len(todos_)] ==
            IF i = 0 THEN << >>
            ELSE without_due[i - 1] \o
                 (IF ~IsSome(todos_[i].due_date)
                  THEN stale_reminder(todos_[i], now_)
                  ELSE << >>)
    IN  sort_by(with_due[Len(todos_)] \o without_due[Len(todos_)])

\* ReminderService::get_reminders, with now_ what Local::now() returned
get_reminders(todos_, now_) ==
    LET with_due[i \in 0..Len(todos_)] ==
            IF i = 0 THEN << >>
            ELSE with_due[i - 1] \o
                 (IF todos_[i].status = "Pending" /\ IsSome(todos_[i].due_date)
                  THEN due_reminder(todos_[i], now_)
                  ELSE << >>)
        without_due[i \in 0..Len(todos_)] ==
            IF i = 0 THEN << >>
            ELSE without_due[i - 1] \o
                 (IF todos_[i].status = "Pending" /\ ~IsSome(todos_[i].due_date)
                  THEN stale_reminder(todos_[i], now_)
                  ELSE << >>)
    IN  sort_by(with_due[Len(todos_)] \o without_due[Len(todos_)])

\* date_naive of an instant seen at an offset from UTC
date_naive(instant, offset) == (instant + offset) \div TicksPerDay

\* ReminderService::get_daily_summary: the four counts of the string, with now_
\* what Local::now() returned and offset the local offset from UTC
get_daily_summary(todos_, now_, offset) ==
    LET count(P(_)) == Cardinality({i \in 1..Len(todos_) : P(todos_[i])})
        pending(t) == t.status = "Pending"
        completed_today(t) ==
            /\ t.status = "Completed"
            /\ date_naive(t.updated_at, 0) = date_naive(now_, offset)
        due_today(t) ==
            /\ t.status = "Pending"
            /\ IsSome(t.due_date)
            /\ date_naive(Unwrap(t.due_date), offset) = date_naive(now_, offset)
        overdue(t) ==
            /\ t.status = "Pending"
            /\ IsSome(t.due_date)
            /\ Unwrap(t.due_date) < now_
    IN  [pending |-> count(pending),
         completed_today |-> count(completed_today),
         due_today |-> count(due_today),
         overdue |-> count(overdue)]

---------------------------------------------------------------------------
(* main.rs: the commands *)

\* `todo register`
Register == \E u \in Usernames, e \in Emails, p \in Passwords : register(u, e, p)

\* `todo login`
Login == \E u \in Usernames, p \in LoginPasswords : login(u, p)

\* `todo logout`
Logout == logout

\* `todo status`
ShowStatus ==
    /\ ret' = Ok(Call("status", <<>>),
                 IF is_authenticated THEN get_current_user.val ELSE None)
    /\ UNCHANGED <<authVars, todoVars, now, next_uuid, io_faults>>

\* ensure_authenticated that prints the message and lets the process end with
\* code 0
refuse_exit_zero(call) ==
    /\ ret' = Ok(call, None)
    /\ UNCHANGED <<authVars, todoVars, now, next_uuid, io_faults>>

\* ensure_authenticated: the process exits with code 1
refuse(call) ==
    /\ ret' = Err(call, "Please login first")
    /\ UNCHANGED <<authVars, todoVars, now, next_uuid, io_faults>>

\* an error returned before anything was changed
fail(call, msg) ==
    /\ ret' = Err(call, msg)
    /\ UNCHANGED <<authVars, todoVars, now, next_uuid, io_faults>>

\* a command that reads only
done(call, val) ==
    /\ ret' = Ok(call, val)
    /\ UNCHANGED <<authVars, todoVars, now, next_uuid, io_faults>>

\* the menu's choice of a priority
selected_priority(selection) ==
    IF selection = 0 THEN "Low"
    ELSE IF selection = 1 THEN "Medium"
    ELSE IF selection = 2 THEN "High"
    ELSE "Medium"

\* the last tick of day d stands for 23:59:59 of that day
EndOfDay(d) == Days(d) + (TicksPerDay - 1)

\* parse_due_date that takes the start of the day
parse_due_date_midnight(d) ==
    IF Len(d) = 2 /\ d[1] = "day" THEN Some(Days(d[2])) ELSE None

\* NaiveDateTime::parse_from_str(&format!("{} 23:59:59", d), "%Y-%m-%d %H:%M:%S"):
\* a date is written <<"day", d>>; None stands for Err
parse_due_date(d) ==
    IF Len(d) = 2 /\ d[1] = "day" THEN Some(EndOfDay(d[2])) ELSE None

\* `todo add`: a flag is None when it was not given, and then the prompt asks
app_add_todo(title_flag, title_typed, description_flag, description_typed, priority_flag, priority_selected, due_flag, due_typed) ==
    LET call == Call("add", <<title_flag, title_typed, description_flag, description_typed,
                          priority_flag, priority_selected, due_flag, due_typed>>)
    IN
    IF ~is_authenticated THEN refuse(call)
    ELSE IF ~get_current_user.ok THEN fail(call, get_current_user.err)
    ELSE
    LET current_user == Unwrap(get_current_user.val)
        title == IF IsSome(title_flag) THEN Unwrap(title_flag) ELSE title_typed
        description == IF IsSome(description_flag) THEN description_flag
                       ELSE IF description_typed = <<>> THEN None
                       ELSE Some(description_typed)
        priority == IF IsSome(priority_flag)
                    THEN Priority_from_string(Unwrap(priority_flag))
                    ELSE Some(selected_priority(priority_selected))
        due_given == IsSome(due_flag) \/ due_typed # <<>>
        due_text == IF IsSome(due_flag) THEN Unwrap(due_flag) ELSE due_typed
    IN  IF ~IsSome(priority) THEN fail(call, "Invalid priority")
        ELSE IF due_given /\ ~IsSome(parse_due_date(due_text))
            THEN fail(call, "input contains invalid characters")
        ELSE /\ next_uuid < MaxUuid
             /\ LET due_date == IF due_given THEN parse_due_date(due_text) ELSE None
                    todo == TodoNew(title, description, Unwrap(priority), due_date,
                                    current_user.id)
                IN  /\ next_uuid' = next_uuid + 1
                    /\ add_todo(call, todo)
             /\ UNCHANGED <<authVars, now>>

\* `todo list`
list_todos(status_filter, priority_filter) ==
    LET call == Call("list", <<status_filter, priority_filter>>)
    IN
    IF ~is_authenticated THEN refuse(call)
    ELSE IF ~get_current_user.ok THEN fail(call, get_current_user.err)
    ELSE
    LET current_user == Unwrap(get_current_user.val)
        mine == get_user_todos(current_user.id)
        filter_status == IF IsSome(Status_from_string(Unwrap(status_filter)))
                         THEN Unwrap(Status_from_string(Unwrap(status_filter)))
                         ELSE "Pending"
        filter_priority == IF IsSome(Priority_from_string(Unwrap(priority_filter)))
                           THEN Unwrap(Priority_from_string(Unwrap(priority_filter)))
                           ELSE "Medium"
        filtered_todos ==
            {id \in mine :
                /\ IsSome(status_filter) => todos[id].status = filter_status
                /\ IsSome(priority_filter) => todos[id].priority = filter_priority}
    IN  done(call, {todos[id] : id \in filtered_todos})

\* the id a command acts on: the one given, or one picked from the menu
\* (None when the menu has nothing to offer)
chosen_ids(id_arg, offered) ==
    IF IsSome(id_arg) THEN {id_arg} ELSE {Some(id) : id \in offered}

\* `todo complete`
app_complete_todo(id_arg) ==
    LET call == Call("complete", <<id_arg>>)
    IN
    IF ~is_authenticated THEN refuse(call)
    ELSE IF ~get_current_user.ok THEN fail(call, get_current_user.err)
    ELSE
    LET current_user == Unwrap(get_current_user.val)
        pending_todos == {id \in get_user_todos(current_user.id) :
                             todos[id].status = "Pending"}
    IN  IF ~IsSome(id_arg) /\ pending_todos = {}
        THEN done(call, None)
        ELSE \E todo_id \in chosen_ids(id_arg, pending_todos) :
                /\ complete_todo(call, Unwrap(todo_id))
                /\ UNCHANGED <<authVars, now, next_uuid>>

\* `todo delete`
app_delete_todo(id_arg) ==
    LET call == Call("delete", <<id_arg>>)
    IN
    IF ~is_authenticated THEN refuse(call)
    ELSE IF ~get_current_user.ok THEN fail(call, get_current_user.err)
    ELSE
    LET current_user == Unwrap(get_current_user.val)
        mine == get_user_todos(current_user.id)
    IN  IF ~IsSome(id_arg) /\ mine = {}
        THEN done(call, None)
        ELSE \E todo_id \in chosen_ids(id_arg, mine) :
                /\ delete_todo(call, Unwrap(todo_id))
                /\ UNCHANGED <<authVars, now, next_uuid>>

\* `todo edit`
app_edit_todo(id_arg, new_title, new_description, selection) ==
    LET call == Call("edit", <<id_arg, new_title, new_description, selection>>)
    IN
    IF ~is_authenticated THEN refuse(call)
    ELSE IF ~get_current_user.ok THEN fail(call, get_current_user.err)
    ELSE
    LET current_user == Unwrap(get_current_user.val)
        mine == get_user_todos(current_user.id)
    IN  IF ~IsSome(id_arg) /\ mine = {}
        THEN done(call, None)
        ELSE \E todo_id \in chosen_ids(id_arg, mine) :
             IF ~get_todo(Unwrap(todo_id)).ok
             THEN fail(call, get_todo(Unwrap(todo_id)).err)
             ELSE LET todo == Unwrap(get_todo(Unwrap(todo_id)).val)
                      edited == [todo EXCEPT
                                   !.title = new_title,
                                   !.description = IF new_description = <<>>
                                                   THEN None
                                                   ELSE Some(new_description),
                                   !.priority = selected_priority(selection),
                                   !.updated_at = now]
                  IN  /\ update_todo(call, edited)
                      /\ UNCHANGED <<authVars, now, next_uuid>>

\* the orders in which a Vec collected from the HashMap may hold the tasks ids
Orders(ids) ==
    {order \in [1..Cardinality(ids) -> ids] :
        \A i, j \in 1..Cardinality(ids) : i # j => order[i] # order[j]}

\* `todo reminders`: the snapshot and the clock read are recorded with the call
check_reminders ==
    IF ~is_authenticated THEN refuse(Call("reminders", <<>>))
    ELSE IF ~get_current_user.ok
    THEN fail(Call("reminders", <<>>), get_current_user.err)
    ELSE \E order \in Orders(get_user_todos(Unwrap(get_current_user.val).id)) :
            LET todos_ == [i \in 1..Len(order) |-> todos[order[i]]]
            IN  done(Call("reminders", <<todos_, now>>), get_reminders(todos_, now))

\* get_daily_summary applied to the same snapshot, at any local offset
LocalOffsets == {0, 1}
daily_summary ==
    \E order \in Orders(get_user_todos(Unwrap(get_current_user.val).id)),
       offset \in LocalOffsets :
        LET todos_ == [i \in 1..Len(order) |-> todos[order[i]]]
        IN  /\ get_current_user.ok
            /\ done(Call("summary", <<todos_, now, offset>>),
                    get_daily_summary(todos_, now, offset))

\* `todo overdue`: the Pending tasks of the user whose due instant is before now
show_overdue ==
    IF ~is_authenticated THEN refuse(Call("overdue", <<>>))
    ELSE IF ~get_current_user.ok
    THEN fail(Call("overdue", <<>>), get_current_user.err)
    ELSE LET mine == get_user_todos(Unwrap(get_current_user.val).id)
             overdue_todos == {id \in mine :
                                  /\ todos[id].status = "Pending"
                                  /\ IsSome(todos[id].due_date)
                                  /\ Unwrap(todos[id].due_date) < now}
         IN  done(Call("overdue", <<>>), {todos[id] : id \in overdue_todos})

\* `todo today`: the tasks of the user whose due date is the local date
show_today ==
    IF ~is_authenticated THEN refuse(Call("today", <<>>))
    ELSE IF ~get_current_user.ok
    THEN fail(Call("today", <<>>), get_current_user.err)
    ELSE \E offset \in LocalOffsets :
         LET mine == get_user_todos(Unwrap(get_current_user.val).id)
             today == date_naive(now, offset)
             today_todos == {id \in mine :
                                /\ IsSome(todos[id].due_date)
                                /\ date_naive(Unwrap(todos[id].due_date), 0) = today}
         IN  done(Call("today", <<offset>>), {todos[id] : id \in today_todos})

AddTodo ==
    \E title_flag \in TitleFlags, title_typed \in TitlesTyped,
       description_typed \in Descriptions,
       priority_flag \in PriorityFlags, priority_selected \in Selections,
       due_flag \in DueFlags, due_typed \in DuesTyped :
        app_add_todo(title_flag, title_typed, None, description_typed,
                     priority_flag, priority_selected, due_flag, due_typed)

ListTodos ==
    \E status_filter \in StatusFilters, priority_filter \in PriorityFilters :
        list_todos(status_filter, priority_filter)

CompleteTodo == \E id_arg \in IdArgs : app_complete_todo(id_arg)

DeleteTodo == \E id_arg \in IdArgs : app_delete_todo(id_arg)

EditTodo ==
    \E id_arg \in IdArgs, new_title \in TitlesTyped,
       new_description \in EditDescriptions, selection \in Selections :
        app_edit_todo(id_arg, new_title, new_description, selection)

\* every command is a new process: TodoApp::new loads the collections from disk
Restart ==
    /\ users' = stored_users
    /\ current_session' = stored_session
    /\ todos' = stored_todos
    /\ ret' = Ok(Call("new", <<>>), None)
    /\ UNCHANGED <<stored_users, stored_session, stored_todos, markdown, now,
                   next_uuid, io_faults>>

\* time passes between commands
Tick ==
    /\ now < MaxNow
    /\ now' = now + 1
    /\ UNCHANGED <<authVars, todoVars, ret, next_uuid, io_faults>>

---------------------------------------------------------------------------

\* the empty store of a first run
InitFresh ==
    /\ users = <<>>
    /\ current_session = None
    /\ stored_users = <<>>
    /\ stored_session = None
    /\ next_uuid = 0

\* a store in which, at instant 0, a user registered and logged in
AgedUser == [id |-> 1, username |-> <<"a">>, email |-> <<"a", "@">>,
             password_hash |-> hash(Rep("p", 6)), created_at |-> 0,
             last_login |-> Some(0)]
AgedSession == [user_id |-> 1, created_at |-> 0, expires_at |-> Days(SESSION_DAYS)]

InitAged ==
    /\ users = (1 :> AgedUser)
    /\ current_session = Some(AgedSession)
    /\ stored_users = users
    /\ stored_session = current_session
    /\ next_uuid = 1

Init ==
    /\ InitFresh \/ InitAged
    /\ todos = <<>>
    /\ stored_todos = <<>>
    /\ markdown = <<>>
    /\ now = Epoch
    /\ ret = Ok(Call("new", <<>>), None)
    /\ io_faults = 0

Next == Register \/ Login \/ Logout \/ ShowStatus \/ Restart \/ Tick

Spec == Init /\ [][Next]_vars

\* a store with two users: the first logged in at instant 0, the second never;
\* the clock stands at the end of its run and storage writes do not fail
OtherUser == [id |-> 2, username |-> <<"A">>, email |-> <<"b", "@">>,
              password_hash |-> hash(Rep("p", 6)), created_at |-> 0,
              last_login |-> None]

InitTodo ==
    /\ users = (1 :> AgedUser) @@ (2 :> OtherUser)
    /\ current_session = Some(AgedSession)
    /\ stored_users = users
    /\ stored_session = current_session
    /\ next_uuid = 2
    /\ todos = <<>>
    /\ stored_todos = <<>>
    /\ markdown = <<>>
    /\ now = MaxNow
    /\ ret = Ok(Call("new", <<>>), None)
    /\ io_faults = MaxFaults

\* the users of InitTodo log in with their passwords
LoginKnown == \E u \in { <<"a">>, <<"A">> } : login(u, Rep("p", 6))

NextTodo ==
    \/ LoginKnown
    \/ Logout
    \/ AddTodo
    \/ ListTodos
    \/ CompleteTodo
    \/ DeleteTodo
    \/ EditTodo
    \/ Restart

SpecTodo == InitTodo /\ [][NextTodo]_vars

\* the same two users, the first with a session opened as the behaviour starts;
\* the clock runs on and storage writes may fail
FreshSession == [user_id |-> 1, created_at |-> Epoch,
                 expires_at |-> Epoch + Days(SESSION_DAYS)]

InitStore ==
    /\ users = (1 :> AgedUser) @@ (2 :> OtherUser)
    /\ current_session = Some(FreshSession)
    /\ stored_users = users
    /\ stored_session = current_session
    /\ next_uuid = 2
    /\ todos = <<>>
    /\ stored_todos = <<>>
    /\ markdown = <<>>
    /\ now = Epoch
    /\ ret = Ok(Call("new", <<>>), None)
    /\ io_faults = 0

NextStore ==
    \/ AddTodo
    \/ CompleteTodo
    \/ DeleteTodo
    \/ EditTodo
    \/ Restart
    \/ Tick

SpecStore == InitStore /\ [][NextStore]_vars

\* the instant at which the reminders are derived, and the session then open
ReminderNow == Days(STALE_DAYS) + Days(2)
ReminderSession == [user_id |-> 1, created_at |-> ReminderNow - 1,
                    expires_at |-> ReminderNow - 1 + Days(SESSION_DAYS)]

\* the due instants and creation instants of the tasks of a snapshot, around
\* the thresholds of get_reminders
DueOffsets == { 0 - Days(1), 0, Days(1) \div 2, Days(1), Days(3), Days(REMINDER_DAYS) }
Ages == { 0, Days(STALE_DAYS), Days(STALE_DAYS) + 1 }
TaskKinds ==
    {[status |-> "Pending", due_date |-> Some(ReminderNow + d),
      created_at |-> ReminderNow] : d \in DueOffsets}
    \cup {[status |-> "Pending", due_date |-> None,
           created_at |-> ReminderNow - a] : a \in Ages}
    \cup {[status |-> "Completed", due_date |-> Some(ReminderNow - 1),
           created_at |-> ReminderNow - 1],
          [status |-> "Completed", due_date |-> None,
           created_at |-> ReminderNow - Days(STALE_DAYS) - 1]}

\* a task of the first user as the store holds it
StoredTodo(id, kind) ==
    [id |-> id,
     title |-> <<"t", ToString(id)>>,
     description |-> None,
     status |-> kind.status,
     priority |-> "Medium",
     due_date |-> kind.due_date,
     created_at |-> kind.created_at,
     updated_at |-> kind.created_at,
     user_id |-> 1]

\* a store with up to MaxInput tasks of the first user, who is logged in
InitReminders ==
    /\ users = (1 :> AgedUser) @@ (2 :> OtherUser)
    /\ current_session = Some(ReminderSession)
    /\ stored_users = users
    /\ stored_session = current_session
    /\ \E n \in 0..MaxInput :
          /\ next_uuid = 2 + n
          /\ \E kinds \in [3..(2 + n) -> TaskKinds] :
                todos = [id \in 3..(2 + n) |-> StoredTodo(id, kinds[id])]
    /\ stored_todos = todos
    /\ markdown = todos
    /\ now = ReminderNow
    /\ ret = Ok(Call("new", <<>>), None)
    /\ io_faults = 0

NextReminders == check_reminders \/ daily_summary

SpecReminders == InitReminders /\ [][NextReminders]_vars
---------------------------------------------------------------------------
\* the task subcommands behind ensure_authenticated: two users, the first with
\* the session opened at instant 0, which expires as the clock moves on; storage
\* writes do not fail
InitGate ==
    /\ users = (1 :> AgedUser) @@ (2 :> OtherUser)
    /\ current_session = Some(AgedSession)
    /\ stored_users = users
    /\ stored_session = current_session
    /\ next_uuid = 2
    /\ todos = <<>>
    /\ stored_todos = <<>>
    /\ markdown = <<>>
    /\ now = Epoch
    /\ ret = Ok(Call("new", <<>>), None)
    /\ io_faults = MaxFaults

NextGate ==
    \/ Logout
    \/ AddTodo
    \/ ListTodos
    \/ CompleteTodo
    \/ DeleteTodo
    \/ EditTodo
    \/ show_overdue
    \/ show_today
    \/ check_reminders
    \/ Restart
    \/ Tick

SpecGate == InitGate /\ [][NextGate]_vars

\* every command that writes, on the store of two users: a third registers, the
\* first logs in, and storage writes may fail; the clock stands at the end of its run
ThirdUser == [username |-> <<"B">>, email |-> <<"c", "@">>, password |-> Rep("p", 6)]
RegisterThird == register(ThirdUser.username, ThirdUser.email, ThirdUser.password)
LoginFirst == login(AgedUser.username, Rep("p", 6))

InitFlush ==
    /\ users = (1 :> AgedUser) @@ (2 :> OtherUser)
    /\ current_session = Some(AgedSession)
    /\ stored_users = users
    /\ stored_session = current_session
    /\ next_uuid = 2
    /\ todos = <<>>
    /\ stored_todos = <<>>
    /\ markdown = <<>>
    /\ now = MaxNow
    /\ ret = Ok(Call("new", <<>>), None)
    /\ io_faults = 0

NextFlush ==
    \/ RegisterThird
    \/ LoginFirst
    \/ Logout
    \/ AddTodo
    \/ CompleteTodo
    \/ DeleteTodo
    \/ EditTodo
    \/ Restart

SpecFlush == InitFlush /\ [][NextFlush]_vars

\* the functions of TodoManager called as a library calls them, with any
\* arguments: a task built by Todo::new, any id, and any record for update_todo
NewTodos == {TodoNew(<<"t">>, None, "Medium", None, 1)}

\* the records update_todo is given: one of the mapping with fields changed, or
\* one whose id the mapping does not hold
Updates ==
    {[todos[id] EXCEPT !.title = <<"u">>, !.status = status, !.updated_at = now] :
        id \in DOMAIN todos, status \in {"Pending", "Completed"}}
    \cup {[TodoNew(<<"u">>, None, "Low", None, 1) EXCEPT !.id = 0]}

manager_add_todo ==
    \E todo \in NewTodos :
        /\ next_uuid < MaxUuid
        /\ next_uuid' = next_uuid + 1
        /\ add_todo(Call("add_todo", <<todo>>), todo)
        /\ UNCHANGED <<authVars, now>>

manager_complete_todo ==
    \E todo_id \in DOMAIN todos \cup {0} :
        /\ complete_todo(Call("complete_todo", <<todo_id>>), todo_id)
        /\ UNCHANGED <<authVars, now, next_uuid>>

manager_update_todo ==
    \E updated_todo \in Updates :
        /\ update_todo(Call("update_todo", <<updated_todo>>), updated_todo)
        /\ UNCHANGED <<authVars, now, next_uuid>>

manager_delete_todo ==
    \E todo_id \in DOMAIN todos \cup {0} :
        /\ delete_todo(Call("delete_todo", <<todo_id>>), todo_id)
        /\ UNCHANGED <<authVars, now, next_uuid>>

NextManager ==
    \/ manager_add_todo
    \/ manager_complete_todo
    \/ manager_update_todo
    \/ manager_delete_todo
    \/ Restart
    \/ Tick

SpecManager == InitStore /\ [][NextManager]_vars

\* add and edit with the title given on the command line (--title), empty or
\* not, or typed at the prompt
TitlesGiven == { Some(<<>>), Some(<<"t">>) }
AddTodoTitled ==
    \E title_flag \in TitlesGiven, priority_flag \in PriorityFlags, due_flag \in DueFlags :
        app_add_todo(title_flag, <<>>, None, <<>>, priority_flag, 1, due_flag, <<>>)

NextTitles ==
    \/ AddTodo
    \/ AddTodoTitled
    \/ EditTodo
    \/ Restart
    \/ Tick

SpecTitles == InitStore /\ [][NextTitles]_vars

(* Claims *)

Session == Unwrap(current_session)
\* a step in which no call returned: nothing but the clock has changed (the
\* fields of ret are compared one by one, values of one shape with each other)
OnlyClock ==
    /\ UNCHANGED <<authVars, todoVars, next_uuid, io_faults>>
    /\ ret'.op = ret.op /\ ret'.ok = ret.ok /\ ret'.err = ret.err
    /\ ret'.args = ret.args /\ ret'.val = ret.val
FiveErrors == {"Username already exists", "Email already exists",
               "Username cannot be empty", "Invalid email address",
               "Password must be at least 6 characters long"}

\* C1: in every reachable state no two distinct user records, in memory or on
\* disk, have the same username (compared case-sensitively) or the same email.
Unique(map) ==
    \A i, j \in DOMAIN map :
        i # j => /\ map[i].username # map[j].username
                 /\ map[i].email # map[j].email
C1_UniqueUsers == Unique(users) /\ Unique(stored_users)

\* two users whose names differ in case only, and a register just rejected as
\* a duplicate
C1_Witness ==
    /\ \E i, j \in DOMAIN users :
          users[i].username = <<"a">> /\ users[j].username = <<"A">>
    /\ ret.op = "register"
    /\ ret.err \in {"Username already exists", "Email already exists"}

\* C2: a complete, delete or edit command issued while user A is authenticated
\* never changes or removes a task owned by another user B.
C2_OnlyOwnTasksMutated ==
    [][\A id \in DOMAIN todos :
          ( /\ is_authenticated
            /\ todos[id].user_id # Session.user_id
            /\ ret'.op \in {"complete", "delete", "edit"} )
          => (id \in DOMAIN todos' /\ todos'[id] = todos[id])]_vars

\* C3: get_user_todos(A) returns exactly the tasks whose user_id is A, and so
\* `todo list` without filters returns exactly the tasks of the user logged in.
C3_ListForOwner ==
    /\ \A A \in DOMAIN users :
          /\ \A id \in get_user_todos(A) : id \in DOMAIN todos /\ todos[id].user_id = A
          /\ \A id \in DOMAIN todos : todos[id].user_id = A => id \in get_user_todos(A)
    /\ (ret.op = "list" /\ ret.ok) =>
          /\ \A t \in ret.val : t.user_id = Session.user_id
          /\ ret.args = <<None, None>> =>
                \A id \in DOMAIN todos :
                    todos[id].user_id = Session.user_id => todos[id] \in ret.val

\* tasks of both owners are stored and a list has returned some but not all
C3_Witness ==
    /\ ret.op = "list" /\ ret.ok /\ ret.args = <<None, None>>
    /\ ret.val # {}
    /\ \E id \in DOMAIN todos : todos[id].user_id # Session.user_id

\* C4: a login with a username that does not exist and a login with an existing
\* username and a wrong password return the same error content.
C4_SameLoginError ==
    \A u1, u2 \in Usernames, p1, p2 \in LoginPasswords :
        \A f1 \in find_user(u1), f2 \in find_user(u2) :
            ( /\ ~IsSome(f1)
              /\ IsSome(f2)
              /\ ~verify(p2, users[Unwrap(f2)].password_hash) )
            => /\ login_check(f1, p1) # ""
               /\ login_check(f1, p1) = login_check(f2, p2)

\* a login was just rejected in a store where both causes can occur
C4_Witness ==
    /\ ret.op = "login" /\ ~ret.ok /\ ret.err # "io"
    /\ \E u \in Usernames : ~IsSome(CHOOSE f \in find_user(u) : TRUE)
    /\ \E u \in Usernames : IsSome(CHOOSE f \in find_user(u) : TRUE)

\* C5: right after a successful login is_authenticated() is true; right after
\* logout it is false; and once the clock has passed the session's expiry it is
\* false and stays false until the next successful login.
C5_SessionLifecycle ==
    [][ /\ (ret'.op = "login" /\ ret'.ok /\ ~OnlyClock) => is_authenticated'
        /\ (ret'.op = "logout" /\ ~OnlyClock) => ~is_authenticated'
        /\ (IsSome(current_session) /\ Session.expires_at <= now)
              => /\ ~is_authenticated
                 /\ is_authenticated' => (ret'.op = "login" /\ ret'.ok) ]_vars

\* C6: is_authenticated() is true iff a session exists and its expires_at is
\* strictly greater than now (false at now = expires_at), and get_current_user()
\* fails at exactly the instants at which is_authenticated() is false.
C6_AuthenticatedIffUnexpired ==
    /\ is_authenticated <=> (IsSome(current_session) /\ Session.expires_at > now)
    /\ (IsSome(current_session) /\ Session.expires_at = now) => ~is_authenticated
    /\ IsSome(current_session) => (~get_current_user.ok <=> Session.expires_at <= now)
    /\ get_current_user.ok <=> is_authenticated

\* `todo status` has just run at the very instant the session expires
C6_Witness ==
    /\ IsSome(current_session) /\ Session.expires_at = now
    /\ ret.op = "status" /\ ret.val = None

\* C7: get_current_user() returns an error exactly when there is no session, or
\* the expiry is <= now, or the session's user_id is no key of users; otherwise
\* it returns the record of that user; and the command that calls it changes
\* neither users nor the session.
C7_Result ==
    LET faulty == \/ ~IsSome(current_session)
                  \/ Session.expires_at <= now
                  \/ Session.user_id \notin DOMAIN users
    IN  /\ ~get_current_user.ok <=> faulty
        /\ ~faulty => get_current_user.val = Some(users[Session.user_id])
        /\ ~IsSome(current_session) => get_current_user.err = "Not authenticated"
        /\ (IsSome(current_session) /\ Session.expires_at <= now)
              => get_current_user.err = "Session expired"
C8_FirstViolated(map, username, email, password) ==
    LET violated ==
            <<\E id \in DOMAIN map : map[id].username = username,
              \E id \in DOMAIN map : map[id].email = email,
              TrimIsEmpty(username),
              TrimIsEmpty(email) \/ ~Contains(email, "@"),
              Len(password) < MIN_PASSWORD_LEN>>
        message ==
            <<"Username already exists", "Email already exists",
              "Username cannot be empty", "Invalid email address",
              "Password must be at least 6 characters long">>
        hits == {k \in 1..5 : violated[k]}
    IN  IF hits = {} THEN ""
        ELSE message[CHOOSE k \in hits : \A l \in hits : k <= l]
C8_RegisterCheckOrder ==
    [][ (ret'.op = "register" /\ ~OnlyClock) =>
          LET first == C8_FirstViolated(users, ret'.args[1], ret'.args[2],
                                        ret'.args[3])
          IN  /\ first # "" => (~ret'.ok /\ ret'.err = first)
              /\ ret'.ok => first = ""
              /\ first = "" => (ret'.ok \/ ret'.err = "io") ]_vars

\* a register rejected for its email being taken although its username is
\* blank and its password too short
C8_Witness ==
    /\ ret.op = "register" /\ ret.err = "Email already exists"
    /\ TrimIsEmpty(ret.args[1])
    /\ Len(ret.args[3]) < MIN_PASSWORD_LEN

\* C9: a register call rejected by one of the five checks changes neither the
\* user mapping in memory, nor the persisted user mapping, nor the session in
\* memory or on disk.
C9_RejectedRegisterNoChange ==
    [][ (ret'.op = "register" /\ ret'.err \in FiveErrors /\ ~OnlyClock) =>
          UNCHANGED <<users, stored_users, current_session, stored_session>>
      ]_vars

\* a register rejected while a user is stored and a session is current
C9_Witness ==
    /\ ret.op = "register" /\ ret.err \in FiveErrors
    /\ users # <<>> /\ stored_users # <<>>
    /\ IsSome(current_session) /\ IsSome(stored_session)

\* C10: after a login that returned success there is a current session, it is
\* that of the user logged in, and it expires exactly 7 days after its
\* creation.
C10_SessionSevenDays ==
    [][ (ret'.op = "login" /\ ret'.ok /\ ~OnlyClock) =>
          /\ IsSome(current_session')
          /\ Unwrap(current_session').user_id = Unwrap(ret'.val).id
          /\ Unwrap(current_session').expires_at =
                Unwrap(current_session').created_at + Days(SESSION_DAYS) ]_vars

\* the parts of C10 that do not depend on the two clock reads
C10_SessionOfUser ==
    [][ (ret'.op = "login" /\ ret'.ok /\ ~OnlyClock) =>
          /\ IsSome(current_session')
          /\ stored_session' = current_session'
          /\ Unwrap(current_session').user_id = Unwrap(ret'.val).id
          /\ Unwrap(ret'.val).username = ret'.args[1]
          /\ Unwrap(current_session').expires_at
                >= Unwrap(current_session').created_at + Days(SESSION_DAYS)
      ]_vars

\* C11: logout, called with no session, an active session or an expired one,
\* leaves no session in memory, never changes the user mapping, and returns
\* success unless clearing the persisted session fails with an I/O error; when
\* it returns success no session is persisted, and a logout that follows a
\* successful logout changes nothing.
C11_LogoutIdempotent ==
    [][ (ret'.op = "logout" /\ ~OnlyClock) =>
          /\ current_session' = None
          /\ UNCHANGED <<users, stored_users, todoVars>>
          /\ ret'.ok \/ ret'.err = "io"
          /\ ret'.ok => stored_session' = None
          /\ (ret.op = "logout" /\ ret.ok /\ ret'.ok) => UNCHANGED vars ]_vars

\* a logout has succeeded, no session is left in memory or on disk, and the
\* expiry instant of the session the store started with has passed
C11_Witness ==
    /\ ret.op = "logout" /\ ret.ok
    /\ current_session = None /\ stored_session = None
    /\ users # <<>>
    /\ now >= AgedSession.expires_at
    /\ \A id \in DOMAIN users : users[id].last_login = Some(0)

C13_Complete ==
    [][ (ret'.op = "complete" /\ ~OnlyClock /\ is_authenticated
            /\ IsSome(ret'.args[1])) =>
          LET id == Unwrap(ret'.args[1])
          IN  IF id \in DOMAIN todos
              THEN /\ ret'.ok \/ ret'.err = "io"
                   /\ todos' = [todos EXCEPT ![id] =
                                   [@ EXCEPT !.status = "Completed",
                                             !.updated_at = now]]
              ELSE /\ ret'.err = "Todo not found"
                   /\ UNCHANGED todoVars ]_vars

\* a complete by id has succeeded on a task created at an earlier instant, of
\* which another command had changed the description since
C13_Witness ==
    /\ ret.op = "complete" /\ ret.ok /\ IsSome(ret.args[1])
    /\ Unwrap(ret.args[1]) \in DOMAIN todos
    /\ LET todo == todos[Unwrap(ret.args[1])]
       IN  /\ todo.status = "Completed"
           /\ todo.updated_at = now
           /\ todo.created_at < now
           /\ todo.description = Some(<<"d">>)
    /\ Cardinality(DOMAIN todos) = 2

\* C14: `delete <id>` with an id that is not in the task mapping returns
\* not-found and leaves the mapping in memory and the persisted one unchanged;
\* with an id that is present it removes exactly that record from the mapping in
\* memory, after which get(id) fails with not-found.
C14_Delete ==
    [][ (ret'.op = "delete" /\ ~OnlyClock /\ is_authenticated
            /\ IsSome(ret'.args[1])) =>
          \A id \in DOMAIN todos \cup {0} :
              id = Unwrap(ret'.args[1]) =>
              IF id \notin DOMAIN todos
              THEN /\ ret'.err = "Todo not found"
                   /\ todos' = todos
                   /\ stored_todos' = stored_todos
              ELSE /\ DOMAIN todos' = DOMAIN todos \ {id}
                   /\ \A other \in DOMAIN todos' : todos'[other] = todos[other]
                   /\ ~get_todo(id)'.ok
                   /\ get_todo(id)'.err = "Todo not found" ]_vars

\* a delete of an id that no task has was refused while a task is stored
C14_Witness ==
    /\ ret.op = "delete" /\ ret.err = "Todo not found"
    /\ IsSome(ret.args[1]) /\ Unwrap(ret.args[1]) \notin DOMAIN todos
    /\ todos # <<>> /\ stored_todos = todos

\* C15: after an add that returned success, get(id) of the new task returns a
\* Pending task whose created_at equals its updated_at, whose user_id is that of
\* the user of the session, and whose due instant, when a date was given, is the
\* last instant of that day; every task there was before is unchanged.
C15_Create ==
    [][ (ret'.op = "add" /\ ret'.ok /\ ~OnlyClock) =>
          \A id \in 1..MaxUuid :
          id = next_uuid' =>
          LET got == get_todo(id)'
              due_flag == ret'.args[7]
          IN  /\ id \notin DOMAIN todos
              /\ got.ok
              /\ Unwrap(got.val).status = "Pending"
              /\ Unwrap(got.val).created_at = Unwrap(got.val).updated_at
              /\ Unwrap(got.val).user_id = Session.user_id
              /\ IsSome(due_flag) =>
                    Unwrap(got.val).due_date = Some(Days(Unwrap(due_flag)[2] + 1) - 1)
              /\ ~IsSome(due_flag) => Unwrap(got.val).due_date = None
              /\ \A old \in DOMAIN todos :
                    old \in DOMAIN todos' /\ todos'[old] = todos[old] ]_vars

\* an add with a date has succeeded while an older task is stored
C15_Witness ==
    /\ ret.op = "add" /\ ret.ok /\ IsSome(ret.args[7])
    /\ next_uuid \in DOMAIN todos
    /\ IsSome(todos[next_uuid].due_date)
    /\ \E old \in DOMAIN todos : todos[old].created_at < todos[next_uuid].created_at

\* C20: when a task command has persisted the new task mapping, it returns
\* success, whether or not the write to the mirror that follows fails.
C20_MirrorFailureNotFatal ==
    [][ ( /\ ret'.op \in {"add", "complete", "edit", "delete"}
          /\ ~OnlyClock
          /\ stored_todos' # stored_todos
          /\ stored_todos' = todos' )
        => ret'.ok ]_vars

\* the snapshot a reminders or summary call was given, the instant it read, the
\* severities it returned, and the place in the snapshot of a reminder's task
Snapshot == ret.args[1]
ReadNow == ret.args[2]
Severities == [j \in 1..Len(ret.val) |-> ret.val[j].priority]
PlaceOf(reminder) == CHOOSE i \in 1..Len(Snapshot) : Snapshot[i].title = reminder.message[1]
Derived == ret.op = "reminders" /\ ret.ok

\* three pending tasks due 1 day ago, in 12 hours (half a day) and in 3 days
C16_Given ==
    /\ Len(Snapshot) = 3
    /\ \A i \in 1..3 : Snapshot[i].status = "Pending" /\ IsSome(Snapshot[i].due_date)
    /\ {Unwrap(Snapshot[i].due_date) - ReadNow : i \in 1..3}
          = {0 - Days(1), Days(1) \div 2, Days(3)}

\* C16 as stated: for three pending tasks due in -1 day, +12 hours and +3 days
\* get_reminders returns exactly 2 reminders, ordered Critical, Warning.
C16_TwoReminders ==
    (Derived /\ C16_Given) => Severities = <<"Critical", "Warning">>

\* C16 as the code has it: for three pending tasks due in -1 day, +12 hours and
\* +3 days get_reminders returns exactly 3 reminders, ordered Critical, Warning,
\* Info.
C16_ThreeReminders ==
    (Derived /\ C16_Given) => Severities = <<"Critical", "Warning", "Info">>

\* the three tasks were given with the one due in 3 days first and the overdue
\* one last
C16_Witness ==
    /\ Derived /\ C16_Given
    /\ Unwrap(Snapshot[1].due_date) - ReadNow = Days(3)
    /\ Unwrap(Snapshot[3].due_date) - ReadNow = 0 - Days(1)
    /\ Len(ret.val) = 3

\* C17: a pending task due exactly at the instant read gets a Critical reminder
\* from get_reminders and is counted as overdue by get_daily_summary.
C17_DueNowIsOverdue ==
    /\ Derived =>
          \A i \in 1..Len(Snapshot) :
              (Snapshot[i].status = "Pending" /\ Snapshot[i].due_date = Some(ReadNow))
              => \E j \in 1..Len(ret.val) :
                    /\ ret.val[j].message[1] = Snapshot[i].title
                    /\ ret.val[j].priority = "Critical"
    /\ ret.op = "summary" =>
          ret.val.overdue =
              Cardinality({i \in 1..Len(Snapshot) :
                              /\ Snapshot[i].status = "Pending"
                              /\ IsSome(Snapshot[i].due_date)
                              /\ Unwrap(Snapshot[i].due_date) <= ReadNow})

\* C18: the reminders returned are in descending order of severity, and two of
\* equal severity are in the order in which their tasks are in the input.
C18_StableOrder ==
    Derived =>
        \A i, j \in 1..Len(ret.val) :
            i < j => /\ Rank(ret.val[i].priority) >= Rank(ret.val[j].priority)
                     /\ ret.val[i].priority = ret.val[j].priority
                           => PlaceOf(ret.val[i]) < PlaceOf(ret.val[j])

\* the order of severity alone, which the sort establishes
C18_SeverityOrder ==
    Derived =>
        \A i, j \in 1..Len(ret.val) :
            i < j => Rank(ret.val[i].priority) >= Rank(ret.val[j].priority)

\* C19: for every Pending task of the input get_reminders returns the reminder
\* of the table on d = due - now (d < 0 Critical, 0 <= d < 1 day Warning,
\* 1 day <= d < 7 days Info, d >= 7 days none), and for one with no due date an
\* Info exactly when now - created_at is more than 7 days.
C19_Expected(todo, at) ==
    IF IsSome(todo.due_date)
    THEN LET d == Unwrap(todo.due_date) - at
         IN  IF d < 0 THEN Some("Critical")
             ELSE IF d < Days(1) THEN Some("Warning")
             ELSE IF d < Days(7) THEN Some("Info")
             ELSE None
    ELSE IF at - todo.created_at > Days(7) THEN Some("Info") ELSE None
C19_ThresholdTable ==
    Derived =>
        \A i \in 1..Len(Snapshot) :
            Snapshot[i].status = "Pending" =>
                LET mine == {j \in 1..Len(ret.val) :
                                ret.val[j].message[1] = Snapshot[i].title}
                    expected == C19_Expected(Snapshot[i], ReadNow)
                IN  IF IsSome(expected)
                    THEN /\ Cardinality(mine) = 1
                         /\ \A j \in mine : ret.val[j].priority = Unwrap(expected)
                    ELSE mine = {}

\* one task aged exactly 7 days with no due date, one due in exactly 7 days and
\* one due in exactly 1 day were given, and one reminder came back
C19_Witness ==
    /\ Derived
    /\ \E i \in 1..Len(Snapshot) :
          /\ Snapshot[i].status = "Pending" /\ ~IsSome(Snapshot[i].due_date)
          /\ ReadNow - Snapshot[i].created_at = Days(7)
    /\ \E i \in 1..Len(Snapshot) : Snapshot[i].due_date = Some(ReadNow + Days(7))
    /\ \E i \in 1..Len(Snapshot) : Snapshot[i].due_date = Some(ReadNow + Days(1))
    /\ Severities = <<"Info">>

\* the last task command failed in its call on the mirror
TaskOps == {"add", "complete", "edit", "delete"}
MirrorFailed == ret.op \in TaskOps /\ ret.err = "io" /\ ret.val = Some("mirror")

\* C21: when the call on the mirror fails in add, complete, update or delete, the
\* task mapping in memory holds the effect of the operation and the persisted
\* mapping equals it: the task added is in both, the task completed is
\* Completed in both, the task edited has its new fields in both, the task
\* deleted is in neither, and no other record has changed.
C21_MirrorNeverRollsBack ==
    [][ (MirrorFailed' /\ ~OnlyClock) =>
          /\ stored_todos' = todos'
          /\ ret'.op = "add" =>
                /\ next_uuid' \notin DOMAIN todos
                /\ DOMAIN todos' = DOMAIN todos \cup {next_uuid'}
                /\ \A old \in DOMAIN todos : todos'[old] = todos[old]
          /\ ret'.op = "complete" =>
                \E id \in DOMAIN todos :
                    /\ IsSome(ret'.args[1]) => id = Unwrap(ret'.args[1])
                    /\ todos' = [todos EXCEPT ![id] =
                                    [@ EXCEPT !.status = "Completed",
                                              !.updated_at = now]]
          /\ ret'.op = "edit" =>
                \E id \in DOMAIN todos :
                    /\ IsSome(ret'.args[1]) => id = Unwrap(ret'.args[1])
                    /\ todos' = [todos EXCEPT ![id] =
                                    [@ EXCEPT !.title = ret'.args[2],
                                              !.description = Some(ret'.args[3]),
                                              !.priority = selected_priority(ret'.args[4]),
                                              !.updated_at = now]]
          /\ ret'.op = "delete" =>
                \E id \in DOMAIN todos :
                    /\ IsSome(ret'.args[1]) => id = Unwrap(ret'.args[1])
                    /\ todos' = Remove(todos, id) ]_vars

\* a delete failed in its call on the mirror: the task is gone from memory and
\* from disk, and the mirror still has its entry
C21_Witness ==
    /\ MirrorFailed /\ ret.op = "delete" /\ IsSome(ret.args[1])
    /\ Unwrap(ret.args[1]) \notin DOMAIN todos
    /\ Unwrap(ret.args[1]) \notin DOMAIN stored_todos
    /\ Unwrap(ret.args[1]) \in DOMAIN markdown

\* the subcommands behind ensure_authenticated
GatedOps == {"add", "list", "complete", "delete", "edit", "overdue", "today",
             "reminders"}

\* C22: a task subcommand (add, list, complete, delete, edit, overdue, today,
\* reminders) invoked when there is no session, or when the session's expiry is
\* not strictly after now, changes neither the task mapping, nor the user
\* mapping, nor the session, in memory or on disk, and ends the process with a
\* non-zero exit code.
C22_RefusedWithoutSession ==
    [][ ( /\ ret'.op \in GatedOps
          /\ ~OnlyClock
          /\ (~IsSome(current_session) \/ Session.expires_at <= now) )
        => /\ UNCHANGED <<authVars, todoVars>>
           /\ ~ret'.ok ]_vars

\* an edit by the id of a stored task was refused at the very instant at which
\* the session expires
C22_Witness ==
    /\ ret.op = "edit" /\ ~ret.ok /\ IsSome(ret.args[1])
    /\ Unwrap(ret.args[1]) \in DOMAIN todos
    /\ IsSome(current_session) /\ Session.expires_at = now

\* the menu of a complete, delete or edit given no id has nothing to offer, so
\* that the command returns without calling the task store
NothingOffered(op, id_arg) ==
    /\ ~IsSome(id_arg)
    /\ get_current_user.ok
    /\ LET mine == get_user_todos(Unwrap(get_current_user.val).id)
       IN  IF op = "complete"
           THEN \A id \in mine : todos[id].status # "Pending"
           ELSE mine = {}

\* C23: after a mutating operation that returned success the collection it
\* mutates is persisted as it is in memory: the users after register and login,
\* the session after login and logout, the tasks after create, complete, update
\* and delete.
C23_FlushedOnSuccess ==
    [][ (ret'.ok /\ ~OnlyClock) =>
          /\ ret'.op \in {"register", "login"} => stored_users' = users'
          /\ ret'.op \in {"login", "logout"} => stored_session' = current_session'
          /\ ret'.op = "add" => stored_todos' = todos'
          /\ (ret'.op \in {"complete", "edit", "delete"}
                /\ ~NothingOffered(ret'.op, ret'.args[1]))
                => stored_todos' = todos' ]_vars

\* a complete has succeeded after a write had failed, and memory and disk hold
\* the same two tasks, one of which the mirror has no entry of
C23_Witness ==
    /\ ret.op = "complete" /\ ret.ok /\ io_faults = 1
    /\ Cardinality(DOMAIN todos) = 2
    /\ stored_todos = todos
    /\ \E id \in DOMAIN stored_todos : id \notin DOMAIN markdown

\* the session in memory, or the persisted one, has expired
Expired(session) == IsSome(session) /\ Unwrap(session).expires_at <= now

\* C24: once the clock has passed a session's expires_at, no operation of the
\* process other than logout or a login that succeeds removes or alters the
\* session record in memory or the persisted one: status (is_authenticated,
\* get_current_user), register and a login that fails leave it in place.
C24_ExpiryPassive ==
    [][ ( /\ ~OnlyClock
          /\ ret'.op \notin {"logout", "new"}
          /\ ~(ret'.op = "login" /\ ret'.ok) )
        => /\ Expired(current_session) => current_session' = current_session
           /\ Expired(stored_session) => stored_session' = stored_session ]_vars

\* the part of C24 that holds: the same, for every operation but a login that
\* fails in a storage write
C24_PassiveButFailedWrite ==
    [][ ( /\ ~OnlyClock
          /\ ret'.op \notin {"logout", "new"}
          /\ ~(ret'.op = "login" /\ (ret'.ok \/ ret'.err = "io")) )
        => /\ Expired(current_session) => current_session' = current_session
           /\ Expired(stored_session) => stored_session' = stored_session ]_vars

\* C25: update_todo replaces the record of the id it is given: it never changes
\* the set of ids of the mapping, and given a task whose id the mapping does not
\* hold it returns not-found and changes nothing.
C25_UpdateKeyedById ==
    [][ (ret'.op = "update_todo" /\ ~OnlyClock) =>
          /\ DOMAIN todos' = DOMAIN todos
          /\ ret'.args[1].id \notin DOMAIN todos =>
                /\ ret'.err = "Todo not found"
                /\ UNCHANGED todoVars ]_vars

\* C26: every stored task has a non-empty title, and an add with an empty title
\* is rejected and creates no task.
C26_NonEmptyTitle ==
    /\ \A id \in DOMAIN todos : todos[id].title # <<>>
    /\ \A id \in DOMAIN stored_todos : stored_todos[id].title # <<>>
    /\ (ret.op = "add" /\ ret.args[1] = Some(<<>>)) => ~ret.ok

\* C27: a login that returns an error, whatever the cause (unknown username,
\* wrong password, failure of save_users or of save_session), leaves the session
\* in memory as it was and does not make is_authenticated() true.
C27_FailedLoginNoSession ==
    [][ (ret'.op = "login" /\ ~ret'.ok /\ ~OnlyClock) =>
          /\ current_session' = current_session
          /\ is_authenticated' => is_authenticated ]_vars

\* the part of C27 that holds: a login rejected for its username or password,
\* or failing in save_users, leaves users' sessions as they were
C27_RejectedLoginNoSession ==
    [][ ( /\ ret'.op = "login" /\ ~ret'.ok /\ ~OnlyClock
          /\ (ret'.err = "io" => stored_users' # users') ) =>
          /\ UNCHANGED <<current_session, stored_session>>
          /\ is_authenticated' => is_authenticated ]_vars

\* C28: a session, if present, in memory or on disk, refers to a user of the user
\* mapping beside it; hence whenever is_authenticated() is true get_current_user()
\* succeeds, and it never reports 'User not found'.
C28_SessionOfExistingUser ==
    /\ IsSome(current_session) => Session.user_id \in DOMAIN users
    /\ IsSome(stored_session) => Unwrap(stored_session).user_id \in DOMAIN stored_users
    /\ is_authenticated => get_current_user.ok
    /\ get_current_user.err # "User not found"

\* a new process has loaded the store after a storage write had failed: it has
\* two users and is authenticated by a session opened since the behaviour began
C28_Witness ==
    /\ ret.op = "new" /\ io_faults = 1
    /\ is_authenticated
    /\ Cardinality(DOMAIN users) = 2
    /\ Session.created_at >= Epoch

\* the places in the result of the reminders of the i-th task of the snapshot
RemindersOf(i) == {j \in 1..Len(ret.val) : ret.val[j].message[1] = Snapshot[i].title}

\* C29: get_reminders returns at most one reminder for each Pending task of its
\* input and none for a Completed one, every reminder is that of a task of the
\* input, so there are no more reminders than Pending tasks; and the tasks are
\* after the call as they were given.
C29_OnePerPendingTask ==
    Derived =>
        /\ \A i \in 1..Len(Snapshot) :
              IF Snapshot[i].status = "Pending"
              THEN Cardinality(RemindersOf(i)) <= 1
              ELSE RemindersOf(i) = {}
        /\ \A j \in 1..Len(ret.val) : \E i \in 1..Len(Snapshot) : j \in RemindersOf(i)
        /\ Len(ret.val) <= Cardinality({i \in 1..Len(Snapshot) :
                                           Snapshot[i].status = "Pending"})
        /\ \A i \in 1..Len(Snapshot) :
              /\ Snapshot[i].id \in DOMAIN todos
              /\ todos[Snapshot[i].id] = Snapshot[i]
              /\ stored_todos[Snapshot[i].id] = Snapshot[i]

\* a Completed task whose due date has passed, a Pending task that is overdue
\* and a Pending task due too far ahead were given, and one reminder came back
C29_Witness ==
    /\ Derived /\ Len(Snapshot) = 3 /\ Len(ret.val) = 1
    /\ \E i \in 1..3 : /\ Snapshot[i].status = "Completed"
                       /\ IsSome(Snapshot[i].due_date)
                       /\ Unwrap(Snapshot[i].due_date) < ReadNow
    /\ \E i \in 1..3 : /\ Snapshot[i].status = "Pending"
                       /\ IsSome(Snapshot[i].due_date)
                       /\ Unwrap(Snapshot[i].due_date) < ReadNow
    /\ \E i \in 1..3 : /\ Snapshot[i].status = "Pending"
                       /\ Snapshot[i].due_date = Some(ReadNow + Days(REMINDER_DAYS))

===========================================================================
